---- MODULE Spec2Model ----
(***************************************************************************)
(* Model of notebooks/utils.py: TextChunker (split_text and its helpers),  *)
(* create_document_id and extract_acl_from_permissions.                    *)
(*                                                                         *)
(* A Python str is modelled as a sequence of characters.  In the chunker   *)
(* every character is a pair <<c, i>>: c is the character and i is its     *)
(* offset (1-based) in the input text, or 0 when the code made it up (the  *)
(* separators and the sentence terminator).  The code never looks at i; it *)
(* only tells two occurrences of equal text apart.                         *)
(***************************************************************************)
EXTENDS Integers, Sequences, FiniteSets, TLC

VARIABLES
    \* ---- TextChunker
    pc,              \* position of the chunker: new, ready, loop, done
    text,            \* argument of split_text
    chunk_size,      \* self.chunk_size
    chunk_overlap,   \* self.chunk_overlap
    error,           \* the exception raised by the chunker, "none" if none
    paragraphs,      \* paragraphs the outer for loop has still to visit
    sentences,       \* sentences the inner for loop has still to visit
    chunks,          \* the list being returned
    current_chunk,   \* the buffer
    current_start,
    chunk_index,
    overlap_text,    \* the local of the last flush
    \* ---- create_document_id
    id_pc,           \* position of the call: idle, call, sanitized, long, return, returned
    site_id, drive_id, item_id,
    arg_index,       \* the chunk_index argument: None or an integer
    safe_site, safe_drive, safe_item,
    doc_id,
    returned_ids,    \* what the calls made so far returned, with their chunk_index
    \* ---- extract_acl_from_permissions
    acl_pc,          \* position of the call: idle, loop, returned, raised
    permissions,     \* the argument
    perm_i,          \* records the for loop has visited
    user_ids,
    group_ids,
    acl_result       \* the tuple returned

chunkVars == <<pc, text, chunk_size, chunk_overlap, error, paragraphs, sentences,
               chunks, current_chunk, current_start, chunk_index, overlap_text>>

idVars == <<id_pc, site_id, drive_id, item_id, arg_index, safe_site, safe_drive,
            safe_item, doc_id, returned_ids>>

aclVars == <<acl_pc, permissions, perm_i, user_ids, group_ids, acl_result>>

vars == <<chunkVars, idVars, aclVars>>

----------------------------------------------------------------------------
(* Bounds of the model *)

\* tokens an input text is made of
MaxTokens == 5
\* length of the long word among the tokens
WordLen == 6
\* chunk_size ranges over -1..MaxSize, chunk_overlap over -1..MaxOverlap
MaxSize == 3
MaxOverlap == 2
\* length of the long identifiers
LongLen == 2001
\* chunk indices are m * 10^e with |m| <= MaxMantissa and e one of 0, BigExp, HugeExp
MaxMantissa == 1
BigExp == 960
HugeExp == 1020
\* permission records in one call of extract_acl_from_permissions
MaxPerms == 2

----------------------------------------------------------------------------
(* Strings *)

LF == "\n"
SP == " "
\* the full-width period the code re-terminates sentences with
KUTEN == "KUTEN"

Min(a, b) == IF a < b THEN a ELSE b
Max(a, b) == IF a > b THEN a ELSE b

RECURSIVE Repeat(_, _)
Repeat(s, n) == IF n <= 0 THEN << >> ELSE s \o Repeat(s, n - 1)

RECURSIVE Flatten(_)
Flatten(ss) == IF ss = << >> THEN << >> ELSE Head(ss) \o Flatten(Tail(ss))

\* the made-up characters of a literal
Lit(s) == [k \in 1..Len(s) |-> <<s[k], 0>>]

\* an input text: its characters with their offsets
Tagged(s) == [k \in 1..Len(s) |-> <<s[k], k>>]

\* \s of the regular expressions, and what str.strip() removes
IsSpace(ch) == ch[1] \in {SP, LF}

\* [。.!?] of the sentence pattern
IsDelim(ch) == ch[1] \in {KUTEN, ".", "!", "?"}

\* s[from:] for from >= 0
DropFirst(s, n) == SubSeq(s, Min(n, Len(s)) + 1, Len(s))

\* s[-n:]: a negative start counts from the end and is clamped to the start of
\* the string; -0 is 0, the start of the string
SliceFromNeg(s, n) ==
    IF -n < 0 THEN DropFirst(s, Max(Len(s) - n, 0)) ELSE DropFirst(s, -n)

RECURSIVE LStrip(_)
LStrip(s) == IF s # << >> /\ IsSpace(Head(s)) THEN LStrip(Tail(s)) ELSE s

RECURSIVE RStrip(_)
RStrip(s) ==
    IF s # << >> /\ IsSpace(s[Len(s)]) THEN RStrip(SubSeq(s, 1, Len(s) - 1)) ELSE s

\* str.strip()
Strip(s) == RStrip(LStrip(s))

\* t occurs in s as a contiguous part
Contains(s, t) ==
    \E k \in 0..(Len(s) - Len(t)) : SubSeq(s, k + 1, k + Len(t)) = t

----------------------------------------------------------------------------
(* TextChunker helpers *)

\* end of the match of \n\s*\n at i: the last line feed of the white-space run
\* that starts at i, 0 when the pattern does not match at i
RECURSIVE ParaMatchEnd(_, _, _, _)
ParaMatchEnd(s, i, j, last) ==
    IF j > Len(s) \/ ~IsSpace(s[j]) THEN last
    ELSE ParaMatchEnd(s, i, j + 1, IF s[j][1] = LF THEN j ELSE last)

\* re.split(r'\n\s*\n', s): scan from i, the piece in progress starts at from
RECURSIVE ReSplitParagraphs(_, _, _)
ReSplitParagraphs(s, i, from) ==
    IF i > Len(s) THEN << SubSeq(s, from, Len(s)) >>
    ELSE IF s[i][1] = LF /\ ParaMatchEnd(s, i, i + 1, 0) # 0
         THEN LET e == ParaMatchEnd(s, i, i + 1, 0)
              IN  << SubSeq(s, from, i - 1) >> \o ReSplitParagraphs(s, e + 1, e + 1)
         ELSE ReSplitParagraphs(s, i + 1, from)

\* end of the match of [。.!?]\s* at the delimiter i
RECURSIVE SentMatchEnd(_, _)
SentMatchEnd(s, j) ==
    IF j + 1 <= Len(s) /\ IsSpace(s[j + 1]) THEN SentMatchEnd(s, j + 1) ELSE j

\* re.split(r'[。.!?]\s*', s)
RECURSIVE ReSplitSentences(_, _, _)
ReSplitSentences(s, i, from) ==
    IF i > Len(s) THEN << SubSeq(s, from, Len(s)) >>
    ELSE IF IsDelim(s[i])
         THEN LET e == SentMatchEnd(s, i)
              IN  << SubSeq(s, from, i - 1) >> \o ReSplitSentences(s, e + 1, e + 1)
         ELSE ReSplitSentences(s, i + 1, from)

NonBlank(p) == Strip(p) # << >>

\* [p.strip() for p in pieces if p.strip()]
StripAll(pieces) ==
    LET kept == SelectSeq(pieces, NonBlank)
    IN  [k \in 1..Len(kept) |-> Strip(kept[k])]

split_into_paragraphs(s) == StripAll(ReSplitParagraphs(s, 1, 1))

split_into_sentences(s) ==
    LET kept == StripAll(ReSplitSentences(s, 1, 1))
    IN  [k \in 1..Len(kept) |-> kept[k] \o Lit(<<KUTEN>>)]

\* the text a chunk is created with: current_chunk.strip()
ChunkTextTruncated(buf) == SubSeq(Strip(buf), 1, Min(Len(Strip(buf)), chunk_size))
ChunkText(buf) == Strip(buf)

create_chunk(t, index, start, end) ==
    [text |-> t, chunk_index |-> index, start_char |-> start, end_char |-> end]

\* the chunk made of the buffer
BufferChunk == create_chunk(ChunkText(current_chunk), chunk_index, current_start,
                            current_start + Len(current_chunk))

\* current_chunk[-self.chunk_overlap:] if len(current_chunk) > self.chunk_overlap
\* else current_chunk
OverlapOf(buf, overlap) ==
    IF Len(buf) > overlap THEN SliceFromNeg(buf, overlap) ELSE buf

\* chunk_index += 1
NextIndexStuck(i) == i
NextIndex(i) == i + 1

\* the fill/flush of one unit, with the separator the branch appends
FillFlush(unit, sep) ==
    IF Len(current_chunk) + Len(unit) <= chunk_size
    THEN /\ current_chunk' = current_chunk \o unit \o sep
         /\ UNCHANGED <<chunks, chunk_index, overlap_text, current_start>>
    ELSE IF current_chunk # << >>
    THEN /\ chunks' = Append(chunks, BufferChunk)
         /\ chunk_index' = NextIndex(chunk_index)
         /\ overlap_text' = OverlapOf(current_chunk, chunk_overlap)
         /\ current_chunk' = overlap_text' \o unit \o sep
         /\ current_start' = current_start + Len(current_chunk') - Len(overlap_text')
    ELSE /\ current_chunk' = unit \o sep
         /\ UNCHANGED <<chunks, chunk_index, overlap_text, current_start>>

----------------------------------------------------------------------------
(* TextChunker: the operations *)

Word == Repeat(<<"a">>, WordLen)

\* a letter, a long word, a sentence delimiter and white space
Tokens == { <<"a">>, Word, <<".">>, <<LF>> }

RECURSIVE TokenSeqs(_)
TokenSeqs(n) ==
    IF n = 0 THEN { << >> }
    ELSE LET shorter == TokenSeqs(n - 1)
         IN  shorter \cup { Append(s, t) : s \in { x \in shorter : Len(x) = n - 1 },
                                           t \in Tokens }

Texts == { Tagged(Flatten(ts)) : ts \in TokenSeqs(MaxTokens) }

Sizes == (0 - 1)..MaxSize
Overlaps == (0 - 1)..MaxOverlap

IdleChunker ==
    /\ pc = "idle"
    /\ text = << >>
    /\ chunk_size = 0
    /\ chunk_overlap = 0
    /\ error = "none"
    /\ paragraphs = << >>
    /\ sentences = << >>
    /\ chunks = << >>
    /\ current_chunk = << >>
    /\ current_start = 0
    /\ chunk_index = 0
    /\ overlap_text = << >>

InitChunker ==
    /\ pc = "new"
    /\ text \in Texts
    /\ chunk_size = 0
    /\ chunk_overlap = 0
    /\ error = "none"
    /\ paragraphs = << >>
    /\ sentences = << >>
    /\ chunks = << >>
    /\ current_chunk = << >>
    /\ current_start = 0
    /\ chunk_index = 0
    /\ overlap_text = << >>

\* TextChunker.__init__
TextChunker_init(size, overlap) ==
    /\ pc = "new"
    /\ chunk_size' = size
    /\ chunk_overlap' = overlap
    /\ pc' = "ready"
    /\ UNCHANGED <<text, error, paragraphs, sentences, chunks, current_chunk,
                   current_start, chunk_index, overlap_text>>
    /\ UNCHANGED <<idVars, aclVars>>

\* split_text up to the loop
split_text_begin ==
    /\ pc = "ready"
    /\ IF text = << >> \/ Strip(text) = << >>
       THEN pc' = "done" /\ paragraphs' = << >>
       ELSE pc' = "loop" /\ paragraphs' = split_into_paragraphs(text)
    /\ chunks' = << >>
    /\ current_chunk' = << >>
    /\ current_start' = 0
    /\ chunk_index' = 0
    /\ UNCHANGED <<text, chunk_size, chunk_overlap, error, sentences, overlap_text>>
    /\ UNCHANGED <<idVars, aclVars>>

\* one iteration of "for para in paragraphs": a long paragraph is split into
\* the sentences the inner loop visits, another one is a unit
for_para ==
    /\ pc = "loop"
    /\ sentences = << >>
    /\ paragraphs # << >>
    /\ paragraphs' = Tail(paragraphs)
    /\ IF Len(Head(paragraphs)) > chunk_size
       THEN /\ sentences' = split_into_sentences(Head(paragraphs))
            /\ UNCHANGED <<chunks, current_chunk, current_start, chunk_index,
                           overlap_text>>
       ELSE /\ FillFlush(Head(paragraphs), Lit(<<LF, LF>>))
            /\ UNCHANGED sentences
    /\ UNCHANGED <<pc, text, chunk_size, chunk_overlap, error>>
    /\ UNCHANGED <<idVars, aclVars>>

\* one iteration of "for sentence in sentences"
for_sentence ==
    /\ pc = "loop"
    /\ sentences # << >>
    /\ sentences' = Tail(sentences)
    /\ FillFlush(Head(sentences), Lit(<<SP>>))
    /\ UNCHANGED <<pc, text, chunk_size, chunk_overlap, error, paragraphs>>
    /\ UNCHANGED <<idVars, aclVars>>

\* the last chunk and the return
split_text_return ==
    /\ pc = "loop"
    /\ sentences = << >>
    /\ paragraphs = << >>
    /\ chunks' = IF Strip(current_chunk) # << >> THEN Append(chunks, BufferChunk)
                 ELSE chunks
    /\ pc' = "done"
    /\ UNCHANGED <<text, chunk_size, chunk_overlap, error, paragraphs, sentences,
                   current_chunk, current_start, chunk_index, overlap_text>>
    /\ UNCHANGED <<idVars, aclVars>>


----------------------------------------------------------------------------
(* TextChunker: the properties *)

\* a configuration the properties of split_text are stated for
ValidConfig == chunk_size > 0 /\ 0 <= chunk_overlap /\ chunk_overlap < chunk_size

\* the units the loop feeds to the fill/flush, in order
UnitsOfPara(p) == IF Len(p) > chunk_size THEN split_into_sentences(p) ELSE << p >>
Units ==
    LET ps == split_into_paragraphs(text)
    IN  Flatten([k \in 1..Len(ps) |-> UnitsOfPara(ps[k])])

ChunksWith(u) == { k \in 1..Len(chunks) : Contains(chunks[k].text, u) }

\* the first chunk a unit occurs in, 0 when it occurs in none
FirstChunk(u) ==
    IF ChunksWith(u) = {} THEN 0
    ELSE CHOOSE k \in ChunksWith(u) : \A j \in ChunksWith(u) : k <= j

\* the last n characters of s, all of s when it is shorter
LastChars(s, n) == SubSeq(s, Len(s) - Min(n, Len(s)) + 1, Len(s))

\* C1: with a valid configuration and a text that is not blank, every unit fed
\* to the fill/flush occurs whole in the text of some returned chunk, and the
\* chunks the units first occur in follow the order of the units.
C1_UnitsKeptInOrder ==
    (pc = "done" /\ ValidConfig /\ Strip(text) # << >>) =>
        \A n \in 1..Len(Units) :
            /\ FirstChunk(Units[n]) # 0
            /\ n < Len(Units) => FirstChunk(Units[n]) <= FirstChunk(Units[n + 1])

\* C1 witness: a call that returned several chunks holding three units or more,
\* one of them the sentence of a long paragraph
C1_Witness ==
    /\ pc = "done" /\ ValidConfig
    /\ Len(chunks) >= 2
    /\ Len(Units) >= 3
    /\ \E n \in 1..Len(Units) : Len(Units[n]) > chunk_size
    /\ \E n \in 1..Len(Units) : FirstChunk(Units[n]) = 2

\* C2: whatever the text and the configuration, the chunks built so far, the
\* last one included, carry the indices 0, 1, ..., n-1 in list order.
C2_IndicesGapless ==
    \A k \in 1..Len(chunks) : chunks[k].chunk_index = k - 1

\* C2 witness: a call that returned three chunks, the last made after the loop
C2_Witness == pc = "done" /\ Len(chunks) >= 3

\* C3: with a valid configuration, a unit longer than chunk_size is whole in
\* the text of exactly one returned chunk.
C3_OversizedInOneChunk ==
    (pc = "done" /\ ValidConfig) =>
        \A n \in 1..Len(Units) :
            Len(Units[n]) > chunk_size => Cardinality(ChunksWith(Units[n])) = 1

\* C6: a chunker with chunk_size <= 0 or chunk_overlap >= chunk_size is never
\* constructed: construction fails with InvalidConfiguration, and split_text
\* never runs with such a configuration.
C6_InvalidConfigRejected ==
    (pc # "new" /\ (chunk_size <= 0 \/ chunk_overlap >= chunk_size)) =>
        (error = "InvalidConfiguration" /\ pc \notin {"loop", "done"})

\* a step of the loop that flushes the buffer
IsFlush == pc = "loop" /\ pc' = "loop" /\ Len(chunks') = Len(chunks) + 1

\* C9: at every flush with 0 <= chunk_overlap < chunk_size the overlap text is
\* the last chunk_overlap characters of the buffer just emitted, or the whole
\* buffer when it is shorter; with chunk_overlap = 0 it is empty.
C9_OverlapIsTail ==
    [][(IsFlush /\ ValidConfig) =>
            /\ overlap_text' = LastChars(current_chunk, chunk_overlap)
            /\ Len(overlap_text') = Min(chunk_overlap, Len(current_chunk))
            /\ chunk_overlap = 0 => overlap_text' = << >>]_vars

\* C10: with a valid configuration the offsets of the chunks never decrease
\* from one chunk to the next, the first chunk starts at 0 and no chunk ends
\* before it starts.
C10_OffsetsMonotone ==
    ValidConfig =>
        \A k \in 1..Len(chunks) :
            /\ chunks[k].start_char <= chunks[k].end_char
            /\ k = 1 => chunks[k].start_char = 0
            /\ k < Len(chunks) =>
                  /\ chunks[k].start_char <= chunks[k + 1].start_char
                  /\ chunks[k].end_char <= chunks[k + 1].end_char

----------------------------------------------------------------------------
(* create_document_id.  Here a str is a sequence of one-character strings. *)

Lower == {"a", "b", "c", "d", "e", "f", "g", "h", "i", "j", "k", "l", "m",
          "n", "o", "p", "q", "r", "s", "t", "u", "v", "w", "x", "y", "z"}
Upper == {"A", "B", "C", "D", "E", "F", "G", "H", "I", "J", "K", "L", "M",
          "N", "O", "P", "Q", "R", "S", "T", "U", "V", "W", "X", "Y", "Z"}
Letters == Lower \cup Upper
Digits == {"0", "1", "2", "3", "4", "5", "6", "7", "8", "9"}

\* the characters [^a-zA-Z0-9\-_] does not match
IsIdChar(c) == c \in Letters \cup Digits \cup {"-", "_"}

\* str.isalpha() of one of those characters
IsAlpha(c) == c \in Letters

\* the lengths and the limit of the code
SiteMax == 20
DriveMax == 20
ItemMax == 40
IdLimit == 1024
ShortPart == 10
HashLen == 8

DOC == <<"d", "o", "c">>
UNKNOWN == <<"u", "n", "k", "n", "o", "w", "n">>

\* s[:n]
Prefix(s, n) == SubSeq(s, 1, Min(n, Len(s)))

\* s.rstrip('-_')
RECURSIVE RStripDashes(_)
RStripDashes(s) ==
    IF s # << >> /\ s[Len(s)] \in {"-", "_"}
    THEN RStripDashes(SubSeq(s, 1, Len(s) - 1)) ELSE s

Prefixed(s) == IF s # << >> /\ ~IsAlpha(s[1]) THEN DOC \o s ELSE s
OrUnknown(s) == IF s = << >> THEN UNKNOWN ELSE s
Truncated(s, max_length) == IF Len(s) > max_length THEN Prefix(s, max_length) ELSE s

sanitize_id_part(t, max_length) ==
    OrUnknown(RStripDashes(Truncated(OrUnknown(Prefixed(SelectSeq(t, IsIdChar))),
                                     max_length)))

\* the decimal digits of n > 0, most significant first
RECURSIVE DigitsOf(_)
DigitsOf(n) ==
    LET d == << CHOOSE c \in Digits :
                   c = <<"0", "1", "2", "3", "4", "5", "6", "7", "8", "9">>[(n % 10) + 1] >>
    IN  IF n < 10 THEN d ELSE DigitsOf(n \div 10) \o d

\* str() of the integer m * 10^e
IntStr(i) ==
    IF i.m = 0 THEN <<"0">>
    ELSE (IF i.m < 0 THEN <<"-">> ELSE << >>)
         \o DigitsOf(IF i.m < 0 THEN 0 - i.m ELSE i.m)
         \o [k \in 1..i.e |-> "0"]

None == [none |-> TRUE]

\* f"{safe_site}_{safe_drive}_{safe_item}_{chunk_index}", or without the index
JoinedIdNoIndex(site, drive, item, index) == site \o <<"_">> \o drive \o <<"_">> \o item
JoinedId(site, drive, item, index) ==
    IF index # None
    THEN site \o <<"_">> \o drive \o <<"_">> \o item \o <<"_">> \o IntStr(index)
    ELSE site \o <<"_">> \o drive \o <<"_">> \o item

\* f"{safe_site[:10]}_{safe_drive[:10]}_{hash_suffix}_{chunk_index}", or
\* without the index
ShortenedId(site, drive, hash_suffix, index) ==
    IF index # None
    THEN Prefix(site, ShortPart) \o <<"_">> \o Prefix(drive, ShortPart) \o <<"_">>
         \o hash_suffix \o <<"_">> \o IntStr(index)
    ELSE Prefix(site, ShortPart) \o <<"_">> \o Prefix(drive, ShortPart) \o <<"_">>
         \o hash_suffix

\* hashlib.md5(...).hexdigest()[:8] is some string of 8 hexadecimal digits; the
\* digest is not computed, every action that takes one takes any of these
HexDigests == { [k \in 1..HashLen |-> "0"], [k \in 1..HashLen |-> "f"],
                [k \in 1..HashLen |-> IF k % 2 = 0 THEN "9" ELSE "c"] }

Long(c) == [k \in 1..LongLen |-> c]

SiteIds == { << >>,
             <<"!", "/", ".">>,
             <<"-", "_", "-">>,
             <<"1", "2", "3", "-", "s", "i", "t", "e">>,
             Long("_"),
             <<"a", "b">> \o [k \in 1..(SiteMax + 5) |-> "-"],
             Long("S") }
DriveIds == { <<"d", "r", "i", "v", "e", "!">>, <<"_">>, Long("9") }
ItemIds == { <<"i", "t", "e", "m">>, << >>, Long("x") }

Mantissas == { m \in (0 - MaxMantissa)..MaxMantissa : m # 0 }
IndexArgs == { None, [m |-> 0, e |-> 0] }
             \cup { [m |-> m, e |-> e] : m \in Mantissas, e \in {0, 1, BigExp, HugeExp} }

IdleId ==
    /\ id_pc = "idle"
    /\ site_id = << >> /\ drive_id = << >> /\ item_id = << >>
    /\ arg_index = None
    /\ safe_site = << >> /\ safe_drive = << >> /\ safe_item = << >>
    /\ doc_id = << >>
    /\ returned_ids = << >>

InitId ==
    /\ id_pc = "call"
    /\ site_id \in SiteIds /\ drive_id \in DriveIds /\ item_id \in ItemIds
    /\ arg_index \in IndexArgs
    /\ safe_site = << >> /\ safe_drive = << >> /\ safe_item = << >>
    /\ doc_id = << >>
    /\ returned_ids = << >>

\* the three calls of sanitize_id_part
id_sanitize ==
    /\ id_pc = "call"
    /\ safe_site' = sanitize_id_part(site_id, SiteMax)
    /\ safe_drive' = sanitize_id_part(drive_id, DriveMax)
    /\ safe_item' = sanitize_id_part(item_id, ItemMax)
    /\ id_pc' = "sanitized"
    /\ UNCHANGED <<site_id, drive_id, item_id, arg_index, doc_id, returned_ids>>
    /\ UNCHANGED <<chunkVars, aclVars>>

\* the joined form and the test of its length
id_join ==
    /\ id_pc = "sanitized"
    /\ doc_id' = JoinedId(safe_site, safe_drive, safe_item, arg_index)
    /\ id_pc' = IF Len(doc_id') > IdLimit THEN "long" ELSE "return"
    /\ UNCHANGED <<site_id, drive_id, item_id, arg_index, safe_site, safe_drive,
                   safe_item, returned_ids>>
    /\ UNCHANGED <<chunkVars, aclVars>>

\* the hash-shortened form
id_shorten(hash_suffix) ==
    /\ id_pc = "long"
    /\ doc_id' = ShortenedId(safe_site, safe_drive, hash_suffix, arg_index)
    /\ id_pc' = "return"
    /\ UNCHANGED <<site_id, drive_id, item_id, arg_index, safe_site, safe_drive,
                   safe_item, returned_ids>>
    /\ UNCHANGED <<chunkVars, aclVars>>

\* return doc_id
id_return ==
    /\ id_pc = "return"
    /\ returned_ids' = Append(returned_ids, [chunk_index |-> arg_index, id |-> doc_id])
    /\ id_pc' = "returned"
    /\ UNCHANGED <<site_id, drive_id, item_id, arg_index, safe_site, safe_drive,
                   safe_item, doc_id>>
    /\ UNCHANGED <<chunkVars, aclVars>>

\* a second call for the same site, drive and item
id_call(index) ==
    /\ id_pc = "returned"
    /\ Len(returned_ids) < 2
    /\ arg_index' = index
    /\ id_pc' = "call"
    /\ UNCHANGED <<site_id, drive_id, item_id, safe_site, safe_drive, safe_item,
                   doc_id, returned_ids>>
    /\ UNCHANGED <<chunkVars, aclVars>>

----------------------------------------------------------------------------
(* create_document_id: the properties *)

\* C4: every identifier returned is made of characters of [a-zA-Z0-9_-], starts
\* with a letter and is at most 1024 characters long, in the joined form and in
\* the hash-shortened form.
C4_IdWellFormed ==
    \A n \in 1..Len(returned_ids) :
        LET id == returned_ids[n].id
        IN  /\ id # << >>
            /\ \A k \in 1..Len(id) : IsIdChar(id[k])
            /\ IsAlpha(id[1])
            /\ Len(id) <= IdLimit

\* C5: for the same site, drive and item, two calls whose chunk indices differ
\* (two integers, or an integer and no index) return different identifiers.
C5_IndicesGiveDistinctIds ==
    \A a, b \in 1..Len(returned_ids) :
        returned_ids[a].chunk_index # returned_ids[b].chunk_index
            => returned_ids[a].id # returned_ids[b].id

\* C5 witness: an identifier in the hash-shortened form and one in the joined
\* form, returned for different chunk indices
C5_Witness ==
    /\ Len(returned_ids) = 2
    /\ returned_ids[1].chunk_index # returned_ids[2].chunk_index
    /\ returned_ids[1].chunk_index # None
    /\ Len(returned_ids[1].id) < 2 * ItemMax
    /\ Len(returned_ids[2].id) > BigExp

----------------------------------------------------------------------------
(* extract_acl_from_permissions.  A JSON value is a record [t, v]: t is its   *)
(* Python type and v its content: the characters of a str, the items of a    *)
(* list, the <<key, value>> pairs of a dict.                                 *)

JNull == [t |-> "null", v |-> 0]
JInt(n) == [t |-> "int", v |-> n]
JStr(cs) == [t |-> "str", v |-> cs]
JList(items) == [t |-> "list", v |-> items]
JDict(pairs) == [t |-> "dict", v |-> pairs]

\* bool(x)
Truthy(x) ==
    CASE x.t = "null" -> FALSE
      [] x.t = "int" -> x.v # 0
      [] OTHER -> x.v # << >>

HasKey(d, key) == \E k \in 1..Len(d.v) : d.v[k][1] = key

\* d[key] of a dict that has the key
Item(d, key) == d.v[CHOOSE k \in 1..Len(d.v) : d.v[k][1] = key][2]

\* d.get(key, default)
GetOr(d, key, default) == IF HasKey(d, key) THEN Item(d, key) ELSE default

\* d.get(key)
Get(d, key) == GetOr(d, key, JNull)

\* a or b
PyOr(a, b) == IF Truthy(a) THEN a ELSE b

ID == <<"i", "d">>

\* "id" in x raises for x of these types
InRaises(x) == x.t \in {"null", "int"}

\* "id" in x
HasId(x) ==
    CASE x.t = "dict" -> HasKey(x, "id")
      [] x.t = "str" -> Contains(x.v, ID)
      [] x.t = "list" -> \E k \in 1..Len(x.v) : x.v[k] = JStr(ID)
      [] OTHER -> FALSE

Ok(ids) == [raised |-> FALSE, ids |-> ids]
Raised == [raised |-> TRUE, ids |-> << >>]

\* x = obj.get(key); if x and "id" in x: append(x["id"])
\* what is appended, or that an exception was raised
Collect(obj, key) ==
    IF obj.t # "dict" THEN Raised
    ELSE LET x == Get(obj, key)
         IN  IF ~Truthy(x) THEN Ok(<< >>)
             ELSE IF InRaises(x) THEN Raised
             ELSE IF ~HasId(x) THEN Ok(<< >>)
             ELSE IF x.t # "dict" THEN Raised
             ELSE Ok(<< Item(x, "id") >>)

\* perm.get("grantedToV2") or perm.get("grantedTo")
GrantedOfLegacyFirst(perm) == PyOr(Get(perm, "grantedTo"), Get(perm, "grantedToV2"))
GrantedOf(perm) == PyOr(Get(perm, "grantedToV2"), Get(perm, "grantedTo"))

\* perm.get("grantedToIdentitiesV2") or perm.get("grantedToIdentities", [])
IdentitiesOf(perm) ==
    PyOr(Get(perm, "grantedToIdentitiesV2"),
         GetOr(perm, "grantedToIdentities", JList(<< >>)))

\* "for identity in x" raises for x of these types
IterRaises(x) == x.t \in {"null", "int"}

\* the values "for identity in x" visits
IterItems(x) ==
    CASE x.t = "list" -> x.v
      [] x.t = "str" -> [k \in 1..Len(x.v) |-> JStr(<< x.v[k] >>)]
      [] x.t = "dict" -> [k \in 1..Len(x.v) |-> JStr(<< x.v[k][1] >>)]
      [] OTHER -> << >>

\* list(set(ids)) raises when an id is not hashable
Hashable(x) == x.t \notin {"list", "dict"}

\* the body of "for perm in permissions", from the lists so far:
\* [raised, users, groups]
RECURSIVE VisitIdentities(_, _, _)
VisitIdentities(items, users, groups) ==
    IF items = << >> THEN [raised |-> FALSE, users |-> users, groups |-> groups]
    ELSE LET u == Collect(Head(items), "user")
             g == Collect(Head(items), "group")
         IN  IF u.raised \/ g.raised
             THEN [raised |-> TRUE, users |-> users, groups |-> groups]
             ELSE VisitIdentities(Tail(items), users \o u.ids, groups \o g.ids)

VisitPerm(perm, users, groups) ==
    LET granted == GrantedOf(perm)
        u == IF Truthy(granted) THEN Collect(granted, "user") ELSE Ok(<< >>)
        g == IF Truthy(granted) THEN Collect(granted, "group") ELSE Ok(<< >>)
        identities == IdentitiesOf(perm)
    IN  IF u.raised \/ g.raised \/ IterRaises(identities)
        THEN [raised |-> TRUE, users |-> users, groups |-> groups]
        ELSE VisitIdentities(IterItems(identities), users \o u.ids, groups \o g.ids)

Range(f) == { f[k] : k \in DOMAIN f }

\* list(set(ids)): the ids, each once, in any order
Deduplicated(ids) ==
    { f \in [1..Cardinality(Range(ids)) -> Range(ids)] : Range(f) = Range(ids) }

\* the input records
U1 == JStr(<<"u", "1">>)
U2 == JStr(<<"u", "2">>)
G1 == JStr(<<"g", "1">>)
User(id) == JDict(<< <<"user", JDict(<< <<"id", id>> >>)>> >>)
Group(id) == JDict(<< <<"group", JDict(<< <<"id", id>> >>)>> >>)
UserAndGroup(uid, gid) ==
    JDict(<< <<"user", JDict(<< <<"id", uid>> >>)>>, <<"group", JDict(<< <<"id", gid>> >>)>> >>)

Absent == [t |-> "absent", v |-> 0]
Field(key, x) == IF x = Absent THEN << >> ELSE << <<key, x>> >>
Perm(v2, legacy, idsV2, ids) ==
    JDict(Field("grantedToV2", v2) \o Field("grantedTo", legacy)
          \o Field("grantedToIdentitiesV2", idsV2) \o Field("grantedToIdentities", ids))

PlainRecords ==
    { Perm(v2, legacy, idsV2, ids) :
        v2 \in { Absent, JDict(<< >>), User(U1) },
        legacy \in { Absent, UserAndGroup(U2, G1) },
        idsV2 \in { Absent, JList(<< >>), JList(<< Group(G1), User(U1) >>) },
        ids \in { Absent, JList(<< User(U2) >>) } }

OddRecords ==
    { Perm(JDict(<< <<"user", JDict(<< <<"displayName", U1>> >>)>> >>), Absent, Absent, Absent),
      Perm(JDict(<< <<"user", JDict(<< >>)>> >>), Absent, Absent, Absent),
      Perm(JNull, User(U2), Absent, Absent),
      Perm(JStr(<<"s">>), Absent, Absent, Absent),
      Perm(JList(<< User(U1) >>), Absent, Absent, Absent),
      Perm(Absent, JDict(<< <<"user", JStr(<<"x">>)>> >>), Absent, Absent),
      Perm(Absent, JDict(<< <<"user", JStr(<<"i", "d", "9">>)>> >>), Absent, Absent),
      Perm(Absent, JDict(<< <<"group", JList(<< JStr(ID) >>)>> >>), Absent, Absent),
      Perm(Absent, JDict(<< <<"user", JInt(5)>> >>), Absent, Absent),
      Perm(User(JList(<< >>)), Absent, Absent, Absent),
      Perm(Absent, Absent, Absent, JNull),
      Perm(Absent, Absent, JList(<< JNull, User(U1) >>), Absent),
      Perm(Absent, Absent, JStr(<<"a">>), Absent),
      Perm(Absent, Absent, JNull, JList(<< Group(G1) >>)) }

PermRecords == PlainRecords \cup OddRecords

RECURSIVE PermLists(_)
PermLists(n) ==
    IF n = 0 THEN { << >> }
    ELSE LET shorter == PermLists(n - 1)
         IN  shorter \cup { Append(ps, p) : ps \in { x \in shorter : Len(x) = n - 1 },
                                            p \in PermRecords }

IdleAcl ==
    /\ acl_pc = "idle"
    /\ permissions = << >>
    /\ perm_i = 0
    /\ user_ids = << >>
    /\ group_ids = << >>
    /\ acl_result = << >>

InitAcl ==
    /\ acl_pc = "loop"
    /\ permissions \in PermLists(MaxPerms)
    /\ perm_i = 0
    /\ user_ids = << >>
    /\ group_ids = << >>
    /\ acl_result = << >>

\* one iteration of "for perm in permissions"
for_perm ==
    /\ acl_pc = "loop"
    /\ perm_i < Len(permissions)
    /\ LET r == VisitPerm(permissions[perm_i + 1], user_ids, group_ids)
       IN  /\ acl_pc' = IF r.raised THEN "raised" ELSE "loop"
           /\ user_ids' = r.users
           /\ group_ids' = r.groups
    /\ perm_i' = perm_i + 1
    /\ UNCHANGED <<permissions, acl_result>>
    /\ UNCHANGED <<chunkVars, idVars>>

\* return list(set(user_ids)), list(set(group_ids))
acl_return ==
    /\ acl_pc = "loop"
    /\ perm_i = Len(permissions)
    /\ IF \A k \in 1..Len(user_ids) : Hashable(user_ids[k])
       THEN IF \A k \in 1..Len(group_ids) : Hashable(group_ids[k])
            THEN /\ \E us \in Deduplicated(user_ids), gs \in Deduplicated(group_ids) :
                        acl_result' = <<us, gs>>
                 /\ acl_pc' = "returned"
            ELSE acl_pc' = "raised" /\ UNCHANGED acl_result
       ELSE acl_pc' = "raised" /\ UNCHANGED acl_result
    /\ UNCHANGED <<permissions, perm_i, user_ids, group_ids>>
    /\ UNCHANGED <<chunkVars, idVars>>

----------------------------------------------------------------------------
(* extract_acl_from_permissions: the properties *)

GrantedKeys == {"grantedToV2", "grantedTo"}
IdentitiesKeys == {"grantedToIdentitiesV2", "grantedToIdentities"}

\* a user or group sub-object: a record whose fields are strings
WellFormedSub(x) == x.t = "dict" /\ \A k \in 1..Len(x.v) : x.v[k][2].t = "str"

\* a granted-to record or an identity: a record of user and group sub-objects
WellFormedGranted(g) ==
    /\ g.t = "dict"
    /\ \A k \in 1..Len(g.v) : g.v[k][1] \in {"user", "group"} /\ WellFormedSub(g.v[k][2])

WellFormedPerm(p) ==
    \A k \in 1..Len(p.v) :
        /\ p.v[k][1] \in GrantedKeys => WellFormedGranted(p.v[k][2])
        /\ p.v[k][1] \in IdentitiesKeys =>
              /\ p.v[k][2].t = "list"
              /\ \A n \in 1..Len(p.v[k][2].v) : WellFormedGranted(p.v[k][2].v[n])

WellFormedInput == \A n \in 1..Len(permissions) : WellFormedPerm(permissions[n])

\* the id of the user (or group) sub-object of g, if it has one
SubIds(g, key) ==
    IF HasKey(g, key) /\ HasKey(Item(g, key), "id") THEN { Item(Item(g, key), "id") }
    ELSE {}

\* the field is present
Present(p, key) == HasKey(p, key)

\* the field is present and is not empty
Filled(p, key) == HasKey(p, key) /\ Truthy(Item(p, key))

\* the records that give ids when "present" alone selects the v2 field
SourcesIfPresent(p) ==
    (IF Present(p, "grantedToV2") THEN << Item(p, "grantedToV2") >>
     ELSE IF Present(p, "grantedTo") THEN << Item(p, "grantedTo") >> ELSE << >>)
    \o (IF Present(p, "grantedToIdentitiesV2") THEN Item(p, "grantedToIdentitiesV2").v
        ELSE IF Present(p, "grantedToIdentities") THEN Item(p, "grantedToIdentities").v
        ELSE << >>)

\* the records that give ids when the v2 field is selected if present and not
\* empty
SourcesIfFilled(p) ==
    (IF Filled(p, "grantedToV2") THEN << Item(p, "grantedToV2") >>
     ELSE IF Present(p, "grantedTo") THEN << Item(p, "grantedTo") >> ELSE << >>)
    \o (IF Filled(p, "grantedToIdentitiesV2") THEN Item(p, "grantedToIdentitiesV2").v
        ELSE IF Present(p, "grantedToIdentities") THEN Item(p, "grantedToIdentities").v
        ELSE << >>)

IdsIfPresent(key) ==
    UNION { SubIds(g, key) : g \in UNION { Range(SourcesIfPresent(permissions[n])) :
                                             n \in 1..Len(permissions) } }

IdsIfFilled(key) ==
    UNION { SubIds(g, key) : g \in UNION { Range(SourcesIfFilled(permissions[n])) :
                                             n \in 1..Len(permissions) } }

EachOnce(ids) == Cardinality(Range(ids)) = Len(ids)

\* C7: the call never fails on a permission record, however its sub-fields
\* are shaped.
C7_NeverFails == acl_pc # "raised"

\* C8 as stated: for well-formed records the user ids returned are, each once,
\* the ids of the user sub-objects of the granted-to record (grantedToV2 if
\* present, else grantedTo) and of the identities (grantedToIdentitiesV2 if
\* present, else grantedToIdentities, else none); the same for the group ids.
C8_V2WheneverPresent ==
    (acl_pc = "returned" /\ WellFormedInput) =>
        /\ EachOnce(acl_result[1]) /\ Range(acl_result[1]) = IdsIfPresent("user")
        /\ EachOnce(acl_result[2]) /\ Range(acl_result[2]) = IdsIfPresent("group")

\* C8 amended: the same, the v2 field being taken when it is present and not
\* empty, and the legacy field otherwise.
C8_V2WheneverFilled ==
    (acl_pc = "returned" /\ WellFormedInput) =>
        /\ EachOnce(acl_result[1]) /\ Range(acl_result[1]) = IdsIfFilled("user")
        /\ EachOnce(acl_result[2]) /\ Range(acl_result[2]) = IdsIfFilled("group")

\* C8 witness: two well-formed records with the v2 and the legacy fields, the
\* same user collected more than once and returned once
C8_Witness ==
    /\ acl_pc = "returned" /\ WellFormedInput
    /\ Len(permissions) = 2
    /\ \A n \in 1..2 : /\ Filled(permissions[n], "grantedToV2")
                       /\ Present(permissions[n], "grantedTo")
                       /\ Filled(permissions[n], "grantedToIdentitiesV2")
                       /\ Present(permissions[n], "grantedToIdentities")
    /\ Len(user_ids) > Len(acl_result[1])
    /\ Len(acl_result[1]) = 1

----------------------------------------------------------------------------
(* The specifications *)

InitChunkerSpec == InitChunker /\ IdleId /\ IdleAcl

NextChunker ==
    \/ \E size \in Sizes, overlap \in Overlaps : TextChunker_init(size, overlap)
    \/ split_text_begin
    \/ for_para
    \/ for_sentence
    \/ split_text_return

SpecChunker == InitChunkerSpec /\ [][NextChunker]_vars

InitIdSpec == InitId /\ IdleChunker /\ IdleAcl

NextId ==
    \/ id_sanitize
    \/ id_join
    \/ \E h \in HexDigests : id_shorten(h)
    \/ id_return
    \/ \E index \in IndexArgs : id_call(index)

SpecId == InitIdSpec /\ [][NextId]_vars

InitAclSpec == InitAcl /\ IdleChunker /\ IdleId

NextAcl ==
    \/ for_perm
    \/ acl_return

SpecAcl == InitAclSpec /\ [][NextAcl]_vars

====
